---- MODULE Spec2Model ----
(***************************************************************************)
(* A model of BF.py: hash_factory / hash_function, and the BloomFilter     *)
(* class (__init__, insert, test), driven as demonstrate_bloom_filter      *)
(* drives it: one constructor call, then any sequence of insert and test.  *)
(*                                                                         *)
(* Numbers.  fp_rate is held in hundredths (fp_rate = 10 is 0.1).  Natural *)
(* logarithms are held in millionths (LnMicro).  A 32-bit word of the hash *)
(* is held as <<hi, lo>>, two 16-bit halves, so that every intermediate    *)
(* product stays below 2^31 while the arithmetic is exactly arithmetic     *)
(* modulo 2^32.                                                            *)
(***************************************************************************)
EXTENDS Integers, Sequences, FiniteSets, TLC

VARIABLES pc, args, bloom_filter, twin, inserted, answers, repeat

vars == <<pc, args, bloom_filter, twin, inserted, answers, repeat>>

(***************************************************************************)
(* Bounds of the model.                                                    *)
(***************************************************************************)
MaxN == 4
MaxNegN == 2
MaxKey == 3

NValues == (0 - MaxNegN)..MaxN
Keys == 0..MaxKey

\* The fp_rate arguments tried, in hundredths: below 0, 0, inside (0,1),
\* 1, and above 1.
FpRates == {0 - 50, 0, 1, 10, 50, 70, 90, 100, 150, 200}

(***************************************************************************)
(* 32-bit words as <<hi, lo>>.                                             *)
(***************************************************************************)
Half == 65536

RECURSIVE Pow2(_)
Pow2(e) == IF e <= 0 THEN 1 ELSE 2 * Pow2(e - 1)

RECURSIVE BitXor(_, _)
BitXor(a, b) ==
    IF a = 0 THEN b
    ELSE IF b = 0 THEN a
    ELSE (((a % 2) + (b % 2)) % 2) + 2 * BitXor(a \div 2, b \div 2)

Xor32(x, y) == <<BitXor(x[1], y[1]), BitXor(x[2], y[2])>>

\* The full 32-bit product of two 16-bit halves, as <<hi, lo>>.
Mul16(a, b) ==
    LET p0 == (a % 256) * b
        p1 == (a \div 256) * b
        t == (p1 % 256) * 256 + p0
    IN  <<(p1 \div 256) + (t \div Half), t % Half>>

Mul32(x, y) ==
    LET m == Mul16(x[2], y[2])
    IN  <<(m[1] + Mul16(x[1], y[2])[2] + Mul16(x[2], y[1])[2]) % Half, m[2]>>

Add32(x, y) ==
    LET s == x[2] + y[2]
    IN  <<(x[1] + y[1] + (s \div Half)) % Half, s % Half>>

\* Rotate left by r, 0 < r < 16.
Rotl32(x, r) ==
    LET keep == Pow2(16 - r)
    IN  <<(x[1] % keep) * Pow2(r) + (x[2] \div keep),
          (x[2] % keep) * Pow2(r) + (x[1] \div keep)>>

\* Logical shift right by r, 0 < r <= 16.
Shr32(x, r) ==
    <<x[1] \div Pow2(r),
      ((x[1] % Pow2(r)) * Pow2(16 - r) + (x[2] \div Pow2(r))) % Half>>

\* An int32 as the 32-bit word of its two's complement.
ToWord(v) == <<(v \div Half) % Half, v % Half>>

\* A 32-bit word read as a signed int32.
ToSigned(x) ==
    IF x[1] < 32768 THEN x[1] * Half + x[2] ELSE (x[1] - Half) * Half + x[2]

(***************************************************************************)
(* murmurhash3_32(key, seed) for an int key: MurmurHash3_x86_32 over the   *)
(* four bytes of the key, the result returned as a signed int32.           *)
(***************************************************************************)
MurmurC1 == <<52382, 11601>>
MurmurC2 == <<7047, 13715>>
MurmurN == <<58964, 27492>>
FmixA == <<34283, 51819>>
FmixB == <<49842, 44597>>

fmix32(h) ==
    LET h1 == Xor32(h, Shr32(h, 16))
        h2 == Mul32(h1, FmixA)
        h3 == Xor32(h2, Shr32(h2, 13))
        h4 == Mul32(h3, FmixB)
    IN  Xor32(h4, Shr32(h4, 16))

murmurhash3_32(key, seed) ==
    LET k1 == Mul32(Rotl32(Mul32(ToWord(key), MurmurC1), 15), MurmurC2)
        h1 == Rotl32(Xor32(ToWord(seed), k1), 13)
        h2 == Add32(Mul32(h1, <<0, 5>>), MurmurN)
        h3 == Xor32(h2, <<0, 4>>)
    IN  ToSigned(fmix32(h3))

(***************************************************************************)
(* hash_factory(m): the closure it returns keeps only m.  Calling the      *)
(* closure: murmurhash3_32(key, seed=seed) % m, Python's %, whose result   *)
(* for m > 0 lies in 0..m-1 also when the hash is negative.                *)
(***************************************************************************)
hash_factory(m) == [m |-> m]

\* murmurhash3_32 on the keys and seeds the model uses, computed once.
MurmurTable ==
    [p \in Keys \X (0..15) |-> murmurhash3_32(p[1], p[2])] @@ [p \in {} |-> 0]

Murmur(key, seed) ==
    IF <<key, seed>> \in DOMAIN MurmurTable
    THEN MurmurTable[<<key, seed>>]
    ELSE murmurhash3_32(key, seed)

hash_function(f, key, seed) == Murmur(key, seed) % f.m

(***************************************************************************)
(* The math module, on the numbers the constructor meets.                  *)
(***************************************************************************)
Ln2Micro == 693147
Ln2SqMicro == 480453
Micro == 1000000

\* math.log(fp_rate) in millionths, fp_rate in hundredths and > 0.
LnMicro(p) ==
    CASE p = 1 -> 0 - 4605170
      [] p = 10 -> 0 - 2302585
      [] p = 50 -> 0 - 693147
      [] p = 70 -> 0 - 356675
      [] p = 90 -> 0 - 105361
      [] p = 100 -> 0
      [] p = 150 -> 405465
      [] p = 200 -> 693147

\* math.ceil(a / b) for integers a and b # 0.
CeilDivFloor(a, b) == IF b < 0 THEN (0 - a) \div (0 - b) ELSE a \div b

CeilDiv(a, b) ==
    IF b < 0 THEN 0 - ((a \div (0 - b))) ELSE 0 - ((0 - a) \div b)

\* math.ceil(math.log2(num / den)) for num > 0 and den > 0: the least e,
\* negative or not, with 2^e >= num / den.
RECURSIVE CeilLog2Up(_, _, _)
CeilLog2Up(num, den, e) ==
    IF den * Pow2(e) >= num THEN e ELSE CeilLog2Up(num, den, e + 1)

RECURSIVE CeilLog2Down(_, _, _)
CeilLog2Down(num, den, j) ==
    IF num * Pow2(j + 1) <= den THEN CeilLog2Down(num, den, j + 1) ELSE 0 - j

CeilLog2(num, den) ==
    IF num > den THEN CeilLog2Up(num, den, 1) ELSE CeilLog2Down(num, den, 0)

(***************************************************************************)
(* BloomFilter.__init__(n, fp_rate).  The result is either the object or   *)
(* the exception that left the constructor.                                *)
(***************************************************************************)
NoFilter ==
    [R |-> 0, N |-> 0, fp_rate |-> 0, k |-> 0,
     table |-> [i \in {} |-> 0], hash_functions |-> <<>>]

Raise(what) == [raised |-> what, self |-> NoFilter]

\* Lines 49-62, once R is known.
init_rest(n, fp_rate, R) ==
    LET k == CeilDiv(R * Ln2Micro, n * Micro)
    IN  [raised |-> "none",
         self |-> [R |-> R, N |-> n, fp_rate |-> fp_rate, k |-> k,
                   table |-> [i \in 0..(R - 1) |-> 0],
                   hash_functions |-> [i \in 1..k |-> hash_factory(R)]]]

\* 1 << e.
ShiftOne(n, fp_rate, e) ==
    IF e < 0 THEN Raise("ValueError: negative shift count")
    ELSE init_rest(n, fp_rate, Pow2(e))

__init__(n, fp_rate) ==
    IF fp_rate <= 0 THEN Raise("ValueError: math domain error")
    ELSE LET num == (0 - n) * LnMicro(fp_rate)
         IN  IF num <= 0 THEN Raise("ValueError: math domain error")
             ELSE ShiftOne(n, fp_rate, CeilLog2(num, Ln2SqMicro))

(***************************************************************************)
(* BloomFilter.insert(key) and BloomFilter.test(key).  Each gives the      *)
(* object as the call leaves it; test also gives the value returned and    *)
(* the number of hash functions it called.                                 *)
(***************************************************************************)
SetBitToggle(table, index) == [table EXCEPT ![index] = 1 - table[index]]

SetBit(table, index) == [table EXCEPT ![index] = 1]

\* Every hash function called with seed 0.
ProbeSeedZero(self, key, i) == hash_function(self.hash_functions[i + 1], key, 0)

\* hash_functions[i](key, i), i counted from 0 as range(k) counts.
Probe(self, key, i) == hash_function(self.hash_functions[i + 1], key, i)

RECURSIVE insert_loop(_, _, _)
insert_loop(self, key, i) ==
    IF i >= self.k THEN self
    ELSE insert_loop([self EXCEPT !.table = SetBit(self.table, Probe(self, key, i))],
                     key, i + 1)

\* insert with the loop started at 1: hash function 0 is skipped.
insertFromOne(self, key) == insert_loop(self, key, 1)

\* insert that also counts the key into N.
insertCounting(self, key) == [insert_loop(self, key, 0) EXCEPT !.N = @ + 1]

insert(self, key) == insert_loop(self, key, 0)

RECURSIVE test_loop(_, _, _)
test_loop(self, key, i) ==
    IF i >= self.k THEN [self |-> self, ret |-> TRUE, probes |-> i]
    ELSE IF self.table[Probe(self, key, i)] = 0
         THEN [self |-> self, ret |-> FALSE, probes |-> i + 1]
         ELSE test_loop(self, key, i + 1)

\* test that clears the first bit of a key it finds.
testClearing(self, key) ==
    LET r == test_loop(self, key, 0)
    IN  IF r.ret /\ self.k >= 1
        THEN [r EXCEPT !.self.table[Probe(self, key, 0)] = 0]
        ELSE r

test(self, key) == test_loop(self, key, 0)

(***************************************************************************)
(* The program: one constructor call, then inserts and tests.              *)
(*   pc        "start", "constructed", or "raised"                         *)
(*   args      the constructor's arguments                                 *)
(*   inserted  the keys insert was called with                             *)
(*   answers   per key, the value of the latest test call made since the   *)
(*             latest insert call                                          *)
(*   repeat    whether the latest insert call's key had been inserted      *)
(*             before                                                      *)
(*   twin      a second filter, used by SpecTwin only                      *)
(***************************************************************************)
NoAnswer == [called |-> FALSE, ret |-> FALSE, probes |-> 0]

NoAnswers == [key \in Keys |-> NoAnswer]

Init ==
    /\ pc = "start"
    /\ args = [n |-> 0, fp_rate |-> 0]
    /\ bloom_filter = NoFilter
    /\ twin = NoFilter
    /\ inserted = {}
    /\ answers = NoAnswers
    /\ repeat = FALSE

Construct(n, fp_rate) ==
    /\ pc = "start"
    /\ LET r == __init__(n, fp_rate)
       IN  /\ pc' = IF r.raised = "none" THEN "constructed" ELSE "raised"
           /\ bloom_filter' = r.self
    /\ args' = [n |-> n, fp_rate |-> fp_rate]
    /\ UNCHANGED <<twin, inserted, answers, repeat>>

Insert(key) ==
    /\ pc = "constructed"
    /\ bloom_filter' = insert(bloom_filter, key)
    /\ inserted' = inserted \cup {key}
    /\ repeat' = (key \in inserted)
    /\ answers' = NoAnswers
    /\ UNCHANGED <<pc, args, twin>>

Test(key) ==
    /\ pc = "constructed"
    /\ LET r == test(bloom_filter, key)
       IN  /\ bloom_filter' = r.self
           /\ answers' = [answers EXCEPT ![key] =
                  [called |-> TRUE, ret |-> r.ret, probes |-> r.probes]]
    /\ UNCHANGED <<pc, args, twin, inserted, repeat>>

Next ==
    \/ \E n \in NValues, fp_rate \in FpRates : Construct(n, fp_rate)
    \/ \E key \in Keys : Insert(key)
    \/ \E key \in Keys : Test(key)

Spec == Init /\ [][Next]_vars

(***************************************************************************)
(* A second program: two filters constructed with the same arguments and   *)
(* fed the same insert calls; test is called on the first.                 *)
(***************************************************************************)
ConstructTwins(n, fp_rate) ==
    /\ pc = "start"
    /\ LET r == __init__(n, fp_rate)
           s == __init__(n, fp_rate)
       IN  /\ pc' = IF r.raised = "none" /\ s.raised = "none"
                    THEN "constructed" ELSE "raised"
           /\ bloom_filter' = r.self
           /\ twin' = s.self
    /\ args' = [n |-> n, fp_rate |-> fp_rate]
    /\ UNCHANGED <<inserted, answers, repeat>>

InsertTwins(key) ==
    /\ pc = "constructed"
    /\ bloom_filter' = insert(bloom_filter, key)
    /\ twin' = insert(twin, key)
    /\ inserted' = inserted \cup {key}
    /\ repeat' = (key \in inserted)
    /\ answers' = NoAnswers
    /\ UNCHANGED <<pc, args>>

NextTwin ==
    \/ \E n \in NValues, fp_rate \in FpRates : ConstructTwins(n, fp_rate)
    \/ \E key \in Keys : InsertTwins(key)
    \/ \E key \in Keys : Test(key)

SpecTwin == Init /\ [][NextTwin]_vars

(***************************************************************************)
(* Vocabulary of the properties.                                           *)
(***************************************************************************)
\* n >= 1 and 0 < fp_rate < 1.
ValidArgs == args.n >= 1 /\ args.fp_rate > 0 /\ args.fp_rate < 100

Attempted == pc # "start"

Constructed == pc = "constructed"

RECURSIVE IsPow2(_)
IsPow2(r) == IF r <= 1 THEN r = 1 ELSE (r % 2 = 0) /\ IsPow2(r \div 2)

\* The theoretical optimum -n * ln(fp_rate) / (ln 2)^2 is TheoNum / Ln2SqMicro.
TheoNum == (0 - args.n) * LnMicro(args.fp_rate)

OnesOf(table) == {i \in DOMAIN table : table[i] = 1}

\* The positions h_i(key, i), i in 0..k-1, of a key in a filter of size R.
PositionAt(self, key, i) == hash_function(hash_factory(self.R), key, i)

Positions(self, key) == {PositionAt(self, key, i) : i \in 0..(self.k - 1)}

ZeroAt(self, key) ==
    {i \in 0..(self.k - 1) : self.table[PositionAt(self, key, i)] = 0}

Least(S) == CHOOSE x \in S : \A y \in S : x <= y

(***************************************************************************)
(* C1.  No false negatives: in every state reached by insert calls, every  *)
(* key insert was called with tests True, whatever else was inserted       *)
(* before or after it.                                                     *)
(***************************************************************************)
\* C1: every inserted key tests True.
C1_NoFalseNegatives ==
    Constructed =>
        \A key \in inserted :
            /\ test(bloom_filter, key).ret
            /\ answers[key].called => answers[key].ret

C1_Witness ==
    /\ Constructed
    /\ bloom_filter.k >= 2
    /\ Cardinality(inserted) >= 3
    /\ \E key \in inserted : answers[key].called
    /\ \E key \in Keys \ inserted : ~test(bloom_filter, key).ret

(***************************************************************************)
(* C2.  A constructor call with n <= 0 or fp_rate outside (0,1) raises     *)
(* and leaves no filter.                                                   *)
(***************************************************************************)
\* C2: invalid constructor arguments always raise and leave no filter.
C2_InvalidArgsRaise ==
    (Attempted /\ ~ValidArgs) => (pc = "raised" /\ bloom_filter = NoFilter)

(***************************************************************************)
(* C3.  For every valid (n, fp_rate) the constructor succeeds and R is the *)
(* smallest power of two that is >= the theoretical optimum.               *)
(***************************************************************************)
\* C3: valid arguments construct, with R the least power of two >= the optimum.
C3_SizingInvariant ==
    (Attempted /\ ValidArgs) =>
        /\ Constructed
        /\ IsPow2(bloom_filter.R)
        /\ bloom_filter.R * Ln2SqMicro >= TheoNum
        /\ \/ bloom_filter.R = 1
           \/ (bloom_filter.R \div 2) * Ln2SqMicro < TheoNum

(***************************************************************************)
(* C4.  For valid (n, fp_rate) the constructed filter has                  *)
(* k = ceil((R / n) * ln 2), that is k - 1 < (R / n) * ln 2 <= k, with     *)
(* k >= 1, and exactly k hash functions.                                   *)
(***************************************************************************)
\* C4: k = ceil((R / n) * ln 2), k >= 1, and k hash functions.
C4_KInvariant ==
    (Constructed /\ ValidArgs) =>
        /\ bloom_filter.N = args.n
        /\ bloom_filter.k >= 1
        /\ Len(bloom_filter.hash_functions) = bloom_filter.k
        /\ bloom_filter.k * bloom_filter.N * Micro >= bloom_filter.R * Ln2Micro
        /\ (bloom_filter.k - 1) * bloom_filter.N * Micro < bloom_filter.R * Ln2Micro

C4_Witness ==
    /\ Constructed
    /\ ValidArgs
    /\ bloom_filter.N >= 3
    /\ bloom_filter.k >= 4
    /\ bloom_filter.k * bloom_filter.N > bloom_filter.R \div 2

(***************************************************************************)
(* C5.  On a filter just constructed, before any insert, test returns      *)
(* False for every key.                                                    *)
(***************************************************************************)
\* C5: before any insert every test call returns False.
C5_EmptyFilterTestsFalse ==
    (Constructed /\ inserted = {}) =>
        \A key \in Keys : answers[key].called => ~answers[key].ret

(***************************************************************************)
(* C6.  Across every step a set bit stays set, the table keeps its length, *)
(* and so the number of set bits never decreases.                          *)
(***************************************************************************)
BitsOnlyRise ==
    /\ DOMAIN bloom_filter'.table = DOMAIN bloom_filter.table
    /\ \A i \in DOMAIN bloom_filter.table :
           bloom_filter.table[i] = 1 => bloom_filter'.table[i] = 1
    /\ Cardinality(OnesOf(bloom_filter'.table))
           >= Cardinality(OnesOf(bloom_filter.table))

\* C6: no step clears a bit or lowers the number of set bits.
C6_MonotonicSaturation == [][Constructed => BitsOnlyRise]_vars

C6_Witness ==
    /\ Constructed
    /\ repeat
    /\ Cardinality(inserted) >= 2
    /\ Cardinality(OnesOf(bloom_filter.table)) >= 3
    /\ \E i \in DOMAIN bloom_filter.table : bloom_filter.table[i] = 0
    /\ \E key \in Keys : answers[key].called

(***************************************************************************)
(* C7.  insert is idempotent: an insert call with a key inserted before    *)
(* leaves the filter as it was, so no test result changes.                 *)
(***************************************************************************)
SecondInsertChangesNothing ==
    \A key \in inserted :
        Insert(key) =>
            /\ bloom_filter' = bloom_filter
            /\ \A other \in Keys :
                   test(bloom_filter', other).ret = test(bloom_filter, other).ret

\* C7: a second insert of a key changes nothing.
C7_InsertIdempotent == [][SecondInsertChangesNothing]_vars

C7_Witness ==
    /\ Constructed
    /\ repeat
    /\ bloom_filter.k >= 2
    /\ Cardinality(inserted) >= 2
    /\ \E i \in DOMAIN bloom_filter.table : bloom_filter.table[i] = 0

(***************************************************************************)
(* C8.  Frame: after construction no call changes R, k, N, fp_rate or the  *)
(* hash functions; insert changes the table only, and test changes         *)
(* nothing, whatever it returns.                                           *)
(***************************************************************************)
ParametersKept ==
    /\ bloom_filter'.R = bloom_filter.R
    /\ bloom_filter'.k = bloom_filter.k
    /\ bloom_filter'.N = bloom_filter.N
    /\ bloom_filter'.fp_rate = bloom_filter.fp_rate
    /\ bloom_filter'.hash_functions = bloom_filter.hash_functions

TestKeepsAll == (\E key \in Keys : Test(key)) => bloom_filter' = bloom_filter

\* C8: parameters are never changed, and test changes nothing.
C8_Frame == [][Constructed => (ParametersKept /\ TestKeepsAll)]_vars

C8_Witness ==
    /\ Constructed
    /\ inserted # {}
    /\ \E key \in Keys : answers[key].called /\ answers[key].ret
    /\ \E key \in Keys : answers[key].called /\ ~answers[key].ret
    /\ bloom_filter.k >= 2

(***************************************************************************)
(* C9.  Determinism: two filters constructed with the same arguments and   *)
(* fed the same insert calls have identical tables after every step and    *)
(* give the same test results; and a test call repeated with no insert in  *)
(* between returns what it returned before.                                *)
(***************************************************************************)
TwinsAgree ==
    Constructed =>
        /\ twin.table = bloom_filter.table
        /\ twin = bloom_filter
        /\ \A key \in Keys : test(twin, key).ret = test(bloom_filter, key).ret

RepeatedTestAgrees ==
    \A key \in Keys :
        (answers[key].called /\ answers'[key].called)
            => answers'[key].ret = answers[key].ret

TestIsAllBitsSet(key) ==
    LET r == test(bloom_filter, key)
        zero == ZeroAt(bloom_filter, key)
    IN  /\ r.ret = (zero = {})
        /\ ~r.ret => r.probes = Least(zero) + 1
        /\ answers[key].called =>
               /\ answers[key].ret = r.ret
               /\ answers[key].probes = r.probes

InsertSetsPositions(key) ==
    /\ Positions(bloom_filter, key) \subseteq 0..(bloom_filter.R - 1)
    /\ OnesOf(insert(bloom_filter, key).table)
           = OnesOf(bloom_filter.table) \cup Positions(bloom_filter, key)

FalsePositiveIsCovered(key) ==
    (key \notin inserted /\ test(bloom_filter, key).ret) =>
        \A p \in Positions(bloom_filter, key) :
            \E other \in inserted : p \in Positions(bloom_filter, other)

\* C10: test is the conjunction of the k bits insert sets.
C10_TestSemantics ==
    Constructed =>
        \A key \in Keys :
            /\ TestIsAllBitsSet(key)
            /\ InsertSetsPositions(key)
            /\ FalsePositiveIsCovered(key)

C10_Witness ==
    /\ Constructed
    /\ bloom_filter.k >= 3
    /\ \E key \in Keys \ inserted : answers[key].called /\ answers[key].ret
    /\ \E key \in Keys \ inserted :
           /\ answers[key].called
           /\ ~answers[key].ret
           /\ answers[key].probes >= 2
           /\ answers[key].probes < bloom_filter.k

====
